---- MODULE Spec2Model ----
(***************************************************************************)
(* Plan-then-Execute agent (src/src/pte): the turn state machine built in  *)
(* graph.py, its nodes (intent classifier, planner, executor, re-planner,  *)
(* final answer, error handler) and the tool invocation layer              *)
(* (tools/registry.py, tools/schemas.py).                                  *)
(*                                                                         *)
(* Conventions.  Python None is the token None; a step input is a record   *)
(* [kind, val, map] with kind absent (None), scalar (str) or structured    *)
(* (dict, map = set of <<key, value>>); a step_id of NoId stands for a     *)
(* missing step_id.  The texts of error messages are abstracted to the     *)
(* error kind they carry.                                                  *)
(***************************************************************************)
EXTENDS Integers, Sequences, FiniteSets, TLC

VARIABLES pc, prev, intent, rewritten_query, needs_tool, time_sensitive,
          plan, past_steps, replan_count, error, result,
          world, calls, dispatched, last, proposal, call

vars == <<pc, prev, intent, rewritten_query, needs_tool, time_sensitive,
          plan, past_steps, replan_count, error, result,
          world, calls, dispatched, last, proposal, call>>

\* ------------------------------------------------------------------ bounds
\* Longest plan the generation backend writes.
MaxPlanLen == 2

\* ------------------------------------------------------------- constants
max_replan_count == 3

None == "None"
NoId == 0

Utterance == "utterance"

Last(s) == s[Len(s)]

IsPrefix(s, t) == Len(s) <= Len(t) /\ SubSeq(t, 1, Len(s)) = s

\* ------------------------------------------------------------ step inputs
Absent == [kind |-> "absent", val |-> "", map |-> {}]

Scalar(v) == [kind |-> "scalar", val |-> v, map |-> {}]

Structured(m) == [kind |-> "structured", val |-> "", map |-> m]

\* An input that is neither None, nor a str, nor a dict (a list, a number).
Other(v) == [kind |-> "other", val |-> v, map |-> {}]

\* Python truthiness of a step input: None, "" and {} are falsy.
Truthy(x) ==
  CASE x.kind = "absent" -> FALSE
    [] x.kind = "scalar" -> x.val # ""
    [] x.kind = "structured" -> x.map # {}
    [] OTHER -> TRUE

\* --------------------------------------------------------- tool registry
TOOLS ==
  {"calculator", "get_current_datetime", "get_weather", "web_search",
   "search_wikipedia", "python_repl", "rag_retrieve"}

\* Keyword parameters run_tool declares besides tool_name and tool_input.
run_tool_params == {"context", "from_previous_step", "history"}

\* Variant: search_wikipedia is left out of the tuple of run_tool.
CONTEXT_TOOLS_narrow == {"web_search", "rag_retrieve"}

\* Tools run_tool injects the call-site context into.
CONTEXT_TOOLS == {"web_search", "rag_retrieve", "search_wikipedia"}

\* Tools the executor dispatches with the search keyword arguments.
SEARCH_TOOLS == {"web_search", "rag_retrieve", "search_wikipedia"}

Param(n, req, hasDef, def) ==
  [name |-> n, required |-> req, hasDefault |-> hasDef, default |-> def]

\* TOOL_SCHEMAS[t]: hasInput = FALSE is "input": None; params in declaration
\* order.
TOOL_SCHEMAS ==
  [t \in TOOLS |->
    CASE t = "get_current_datetime" -> [hasInput |-> FALSE, params |-> <<>>]
      [] t = "calculator" ->
           [hasInput |-> TRUE, params |-> <<Param("expression", TRUE, FALSE, "")>>]
      [] t = "get_weather" ->
           [hasInput |-> TRUE, params |-> <<Param("city", TRUE, FALSE, "")>>]
      [] t = "web_search" ->
           [hasInput |-> TRUE, params |-> <<Param("query", TRUE, FALSE, "")>>]
      [] t = "search_wikipedia" ->
           [hasInput |-> TRUE, params |-> <<Param("query", TRUE, FALSE, "")>>]
      [] t = "python_repl" ->
           [hasInput |-> TRUE, params |-> <<Param("code", TRUE, FALSE, "")>>]
      [] t = "rag_retrieve" ->
           [hasInput |-> TRUE,
            params |-> <<Param("query", TRUE, FALSE, ""),
                         Param("top_k", FALSE, TRUE, "3")>>]]

IsRequired(p) == p.required

\* Result of validate_tool_input: raised with an error kind, or the
\* normalized arguments (isNone: the function returned None; raw: the
\* "_raw" pass-through of a tool without schema).
Raised(kind) ==
  [raised |-> TRUE, err |-> kind, isNone |-> FALSE, raw |-> FALSE, args |-> {}]

Validated(a) ==
  [raised |-> FALSE, err |-> None, isNone |-> FALSE, raw |-> FALSE, args |-> a]

ValidatedNone ==
  [raised |-> FALSE, err |-> None, isNone |-> TRUE, raw |-> FALSE, args |-> {}]

\* {"_raw": x}; args is what run_tool hands to the callable for it:
\* tool_fn(**x) for a dict, tool_fn(x) otherwise (one positional argument).
ValidatedRaw(x) ==
  [raised |-> FALSE, err |-> None, isNone |-> FALSE, raw |-> TRUE,
   args |-> IF x.kind = "structured" THEN x.map ELSE {<<"0", x.val>>}]

RECURSIVE validate_dict_nodefault(_, _, _)
\* Variant: a parameter that is not supplied is never given its default.
validate_dict_nodefault(params, m, acc) ==
  IF params = <<>> THEN Validated(acc)
  ELSE LET p == Head(params)
           supplied == {kv \in m : kv[1] = p.name}
       IN IF supplied # {}
            THEN validate_dict_nodefault(Tail(params), m, acc \cup supplied)
          ELSE IF p.required THEN Raised("MissingRequiredParameter")
          ELSE validate_dict_nodefault(Tail(params), m, acc)

RECURSIVE validate_dict(_, _, _)
\* The loop of validate_tool_input over the declared parameters for a dict
\* input: supplied value, else required -> raise, else default.
validate_dict(params, m, acc) ==
  IF params = <<>> THEN Validated(acc)
  ELSE LET p == Head(params)
           supplied == {kv \in m : kv[1] = p.name}
       IN IF supplied # {}
            THEN validate_dict(Tail(params), m, acc \cup supplied)
          ELSE IF p.required THEN Raised("MissingRequiredParameter")
          ELSE IF p.hasDefault
            THEN validate_dict(Tail(params), m, acc \cup {<<p.name, p.default>>})
          ELSE validate_dict(Tail(params), m, acc)

\* Variant: a missing input is normalized to no arguments whatever the
\* schema requires.
validate_tool_input_lenient(tool_name, tool_input) ==
  IF tool_name \notin DOMAIN TOOL_SCHEMAS
    THEN (IF Truthy(tool_input) THEN ValidatedRaw(tool_input) ELSE ValidatedNone)
  ELSE LET schema == TOOL_SCHEMAS[tool_name]
           required_params == SelectSeq(schema.params, IsRequired)
       IN IF ~schema.hasInput THEN ValidatedNone
          ELSE IF tool_input.kind = "absent" THEN Validated({})
          ELSE IF tool_input.kind = "scalar"
            THEN (IF required_params # <<>>
                    THEN Validated({<<required_params[1].name, tool_input.val>>})
                  ELSE IF schema.params # <<>>
                    THEN Validated({<<schema.params[1].name, tool_input.val>>})
                  ELSE Validated({}))
          ELSE IF tool_input.kind = "structured"
            THEN validate_dict(schema.params, tool_input.map, {})
          ELSE Raised("UnsupportedInputType")

\* Variant: the missing-input test is `not tool_input`, so an empty string
\* is treated as a missing input.
validate_tool_input_falsy(tool_name, tool_input) ==
  IF tool_name \notin DOMAIN TOOL_SCHEMAS
    THEN (IF Truthy(tool_input) THEN ValidatedRaw(tool_input) ELSE ValidatedNone)
  ELSE LET schema == TOOL_SCHEMAS[tool_name]
           required_params == SelectSeq(schema.params, IsRequired)
       IN IF ~schema.hasInput THEN ValidatedNone
          ELSE IF ~Truthy(tool_input)
            THEN (IF required_params # <<>>
                    THEN Raised("MissingRequiredParameter")
                    ELSE Validated({}))
          ELSE IF tool_input.kind = "scalar"
            THEN (IF required_params # <<>>
                    THEN Validated({<<required_params[1].name, tool_input.val>>})
                  ELSE IF schema.params # <<>>
                    THEN Validated({<<schema.params[1].name, tool_input.val>>})
                  ELSE Validated({}))
          ELSE IF tool_input.kind = "structured"
            THEN validate_dict(schema.params, tool_input.map, {})
          ELSE Raised("UnsupportedInputType")

\* Variant: an input of another type is passed on as a string.
validate_tool_input_anytype(tool_name, tool_input) ==
  IF tool_name \notin DOMAIN TOOL_SCHEMAS
    THEN (IF Truthy(tool_input) THEN ValidatedRaw(tool_input) ELSE ValidatedNone)
  ELSE LET schema == TOOL_SCHEMAS[tool_name]
           required_params == SelectSeq(schema.params, IsRequired)
       IN IF ~schema.hasInput THEN ValidatedNone
          ELSE IF tool_input.kind = "absent"
            THEN (IF required_params # <<>>
                    THEN Raised("MissingRequiredParameter")
                    ELSE Validated({}))
          ELSE IF tool_input.kind \in {"scalar", "other"}
            THEN (IF required_params # <<>>
                    THEN Validated({<<required_params[1].name, tool_input.val>>})
                  ELSE IF schema.params # <<>>
                    THEN Validated({<<schema.params[1].name, tool_input.val>>})
                  ELSE Validated({}))
          ELSE IF tool_input.kind = "structured"
            THEN validate_dict(schema.params, tool_input.map, {})
          ELSE Raised("UnsupportedInputType")

validate_tool_input(tool_name, tool_input) ==
  IF tool_name \notin DOMAIN TOOL_SCHEMAS
    THEN (IF Truthy(tool_input) THEN ValidatedRaw(tool_input) ELSE ValidatedNone)
  ELSE LET schema == TOOL_SCHEMAS[tool_name]
           required_params == SelectSeq(schema.params, IsRequired)
       IN IF ~schema.hasInput THEN ValidatedNone
          ELSE IF tool_input.kind = "absent"
            THEN (IF required_params # <<>>
                    THEN Raised("MissingRequiredParameter")
                    ELSE Validated({}))
          ELSE IF tool_input.kind = "scalar"
            THEN (IF required_params # <<>>
                    THEN Validated({<<required_params[1].name, tool_input.val>>})
                  ELSE IF schema.params # <<>>
                    THEN Validated({<<schema.params[1].name, tool_input.val>>})
                  ELSE Validated({}))
          ELSE IF tool_input.kind = "structured"
            THEN validate_dict(schema.params, tool_input.map, {})
          ELSE Raised("UnsupportedInputType")

\* Tools whose callable lets an exception out (get_weather: missing API key
\* or request failure; web_search: missing API key or search failure).  The
\* other callables catch every Exception and return a string.
RAISING_TOOLS == {"get_weather", "web_search"}

ToolOutput(tool_name) == tool_name

\* Outcome of one run_tool call.  kwargs: the names of the keyword arguments
\* of the call; fails: what the tool callable does when it is reached.
\* called: the tool callable was invoked; args: the arguments it received.
Outcome(r, v, c, a) == [raised |-> r, value |-> v, called |-> c, args |-> a]

\* The call-site context run_tool adds to the normalized arguments of a
\* search tool: context when it was passed (and is not empty), the flag and
\* the history always (their defaults when not passed).
call_site_context(kwargs, from_previous_step) ==
  (IF "context" \in kwargs THEN {<<"context", Utterance>>} ELSE {})
  \cup {<<"from_previous_step", IF from_previous_step THEN "True" ELSE "False">>,
        <<"history", IF "history" \in kwargs THEN "messages" ELSE None>>}

\* Variant: the lookup result is not tested, the call goes on to the
\* normalization and the invocation.
run_tool_in_unchecked(registry, tool_name, tool_input, kwargs, from_previous_step, fails) ==
  IF ~(kwargs \subseteq run_tool_params) THEN Outcome(TRUE, "TypeError", FALSE, {})
  ELSE LET v == validate_tool_input(tool_name, tool_input)
           ctx == IF tool_name \in CONTEXT_TOOLS /\ ~v.isNone /\ ~v.raw
                    THEN call_site_context(kwargs, from_previous_step)
                    ELSE {}
       IN IF v.raised THEN Outcome(TRUE, v.err, FALSE, {})
          ELSE IF fails /\ tool_name \in RAISING_TOOLS
            THEN Outcome(TRUE, "ToolInvocationFailure", TRUE, v.args \cup ctx)
          ELSE Outcome(FALSE, ToolOutput(tool_name), TRUE, v.args \cup ctx)

\* run_tool over a registry (the dict TOOLS at the time of the call).
run_tool_in(registry, tool_name, tool_input, kwargs, from_previous_step, fails) ==
  IF ~(kwargs \subseteq run_tool_params) THEN Outcome(TRUE, "TypeError", FALSE, {})
  ELSE IF tool_name \notin registry THEN Outcome(TRUE, "UnknownTool", FALSE, {})
  ELSE LET v == validate_tool_input(tool_name, tool_input)
           ctx == IF tool_name \in CONTEXT_TOOLS /\ ~v.isNone /\ ~v.raw
                    THEN call_site_context(kwargs, from_previous_step)
                    ELSE {}
       IN IF v.raised THEN Outcome(TRUE, v.err, FALSE, {})
          ELSE IF fails /\ tool_name \in RAISING_TOOLS
            THEN Outcome(TRUE, "ToolInvocationFailure", TRUE, v.args \cup ctx)
          ELSE Outcome(FALSE, ToolOutput(tool_name), TRUE, v.args \cup ctx)

run_tool(tool_name, tool_input, kwargs, from_previous_step, fails) ==
  run_tool_in(TOOLS, tool_name, tool_input, kwargs, from_previous_step, fails)

\* ------------------------------------------------------------ tool groups
\* TOOL_DEFINITIONS: capability group and risk level per tool.
TOOL_DEFINITIONS ==
  [t \in {"web_search", "search_wikipedia", "rag_retrieve", "get_weather",
          "get_current_datetime", "calculator", "python_repl"} |->
    [group |-> CASE t \in {"web_search", "search_wikipedia", "rag_retrieve"} -> "search"
                 [] t \in {"get_weather", "get_current_datetime"} -> "query"
                 [] OTHER -> "compute",
     risk |-> IF t = "python_repl" THEN "high" ELSE "low"]]

get_tool_risk(tool_name) ==
  IF tool_name \in DOMAIN TOOL_DEFINITIONS
    THEN TOOL_DEFINITIONS[tool_name].risk
    ELSE "high"

\* Variant: every tool is allowed in a re-plan.
is_tool_allowed_for_replan_any(tool_name) == TRUE

is_tool_allowed_for_replan(tool_name) == get_tool_risk(tool_name) # "high"

\* Variant: the allow-list names a tool that is not in the registry.
get_available_tools_extra == DOMAIN TOOL_DEFINITIONS \cup {"sudo_shell"}

get_available_tools == DOMAIN TOOL_DEFINITIONS

\* --------------------------------------------------------- plan synthesis
\* A step as the backend writes it (PlanStep).
RawStep(id, tool, inp, q, from) ==
  [step_id |-> id, tool |-> tool, input |-> inp, query |-> q, input_from |-> from]

\* Variant: a missing step_id defaults to the 0-based position plus 2.
step_dict_shifted(step, idx) ==
  [step EXCEPT
     !.step_id = IF step.step_id = NoId THEN idx + 1 ELSE step.step_id,
     !.input = IF Truthy(step.query) /\ ~Truthy(step.input)
                 THEN step.query ELSE step.input]

\* model_dump of one validated step: default the step_id to the 1-based
\* position, fold query into input when query is truthy and input is falsy.
step_dict(step, idx) ==
  [step EXCEPT
     !.step_id = IF step.step_id = NoId THEN idx ELSE step.step_id,
     !.input = IF Truthy(step.query) /\ ~Truthy(step.input)
                 THEN step.query ELSE step.input]

Rejected(kind) == [ok |-> FALSE, err |-> kind, plan |-> <<>>]

Accepted(p) == [ok |-> TRUE, err |-> None, plan |-> p]

RECURSIVE planner_validate_prefix(_, _, _, _)
\* Variant: the loop stops at the first disallowed tool and keeps the steps
\* validated so far.
planner_validate_prefix(steps, idx, available_tools, plan_dicts) ==
  IF steps = <<>> THEN Accepted(plan_dicts)
  ELSE LET step == Head(steps)
       IN IF step.tool \notin available_tools THEN Accepted(plan_dicts)
          ELSE planner_validate_prefix(Tail(steps), idx + 1, available_tools,
                                       Append(plan_dicts, step_dict(step, idx)))

RECURSIVE planner_validate(_, _, _, _)
\* The validation loop of planner_node.
planner_validate(steps, idx, available_tools, plan_dicts) ==
  IF steps = <<>> THEN Accepted(plan_dicts)
  ELSE LET step == Head(steps)
       IN IF step.tool \notin available_tools THEN Rejected("DisallowedTool")
          ELSE planner_validate(Tail(steps), idx + 1, available_tools,
                                Append(plan_dicts, step_dict(step, idx)))

\* s.get("tool") on a StepResult {step, status, output}: the key is absent.
step_result_get_tool(s) == None

was_in_original(tool, ps) ==
  \E i \in 1..Len(ps) : step_result_get_tool(ps[i]) = tool

RECURSIVE replanner_validate(_, _, _, _, _)
\* The validation loop of replanner_node.
replanner_validate(steps, idx, available_tools, ps, plan_dicts) ==
  IF steps = <<>> THEN Accepted(plan_dicts)
  ELSE LET step == Head(steps)
       IN IF step.tool \notin available_tools THEN Rejected("DisallowedTool")
          ELSE IF ~is_tool_allowed_for_replan(step.tool)
                  /\ ~was_in_original(step.tool, ps)
            THEN Rejected("HighRiskToolIntroduced")
          ELSE replanner_validate(Tail(steps), idx + 1, available_tools, ps,
                                  Append(plan_dicts, step_dict(step, idx)))

\* What the generation backend can answer to a plan request: it raises, the
\* text is not JSON, the JSON does not validate as a Plan, or it is a Plan.
Response(kind, steps) == [kind |-> kind, steps |-> steps]

NoResponse == Response("none", <<>>)

\* Variant: a failed generation yields an empty plan and no error.
planner_node_swallow(resp, available_tools) ==
  LET v == IF resp.kind = "plan"
             THEN planner_validate(resp.steps, 1, available_tools, <<>>)
             ELSE Accepted(<<>>)
  IN IF v.ok
       THEN [plan |-> v.plan, past_steps |-> <<>>, replan_count |-> 0,
             error |-> None, sets_count |-> TRUE]
       ELSE [plan |-> <<>>, past_steps |-> <<>>, replan_count |-> 0,
             error |-> v.err, sets_count |-> FALSE]

\* planner_node: the delta it returns for a backend response.
planner_node(resp, available_tools) ==
  LET v == IF resp.kind = "plan"
             THEN planner_validate(resp.steps, 1, available_tools, <<>>)
             ELSE Rejected("PlanGenerationFailure")
  IN IF v.ok
       THEN [plan |-> v.plan, past_steps |-> <<>>, replan_count |-> 0,
             error |-> None, sets_count |-> TRUE]
       ELSE [plan |-> <<>>, past_steps |-> <<>>, replan_count |-> 0,
             error |-> v.err, sets_count |-> FALSE]

\* Variant: an accepted re-plan adds 2 to replan_count.
replanner_node_plus2(count, pl, ps, resp, available_tools) ==
  IF count >= max_replan_count
    THEN [plan |-> pl, replan_count |-> count, error |-> "ReplanLimitExceeded",
          llm |-> FALSE, ok |-> FALSE]
  ELSE LET v == CASE resp.kind = "plan" ->
                       replanner_validate(resp.steps, 1, available_tools, ps, <<>>)
                  [] resp.kind = "unparseable" -> Rejected("ReplanParseFailure")
                  [] OTHER -> Rejected("ReplanFailure")
       IN IF v.ok
            THEN [plan |-> v.plan, replan_count |-> count + 2, error |-> None,
                  llm |-> TRUE, ok |-> TRUE]
            ELSE [plan |-> pl, replan_count |-> count, error |-> v.err,
                  llm |-> TRUE, ok |-> FALSE]

\* Variant: the limit is checked after the backend has been asked.
replanner_node_latecheck(count, pl, ps, resp, available_tools) ==
  IF count >= max_replan_count
    THEN [plan |-> pl, replan_count |-> count, error |-> "ReplanLimitExceeded",
          llm |-> TRUE, ok |-> FALSE]
  ELSE LET v == CASE resp.kind = "plan" ->
                       replanner_validate(resp.steps, 1, available_tools, ps, <<>>)
                  [] resp.kind = "unparseable" -> Rejected("ReplanParseFailure")
                  [] OTHER -> Rejected("ReplanFailure")
       IN IF v.ok
            THEN [plan |-> v.plan, replan_count |-> count + 1, error |-> None,
                  llm |-> TRUE, ok |-> TRUE]
            ELSE [plan |-> pl, replan_count |-> count, error |-> v.err,
                  llm |-> TRUE, ok |-> FALSE]

\* Variant: the limit test is count > max_replan_count.
replanner_node_offbyone(count, pl, ps, resp, available_tools) ==
  IF count > max_replan_count
    THEN [plan |-> pl, replan_count |-> count, error |-> "ReplanLimitExceeded",
          llm |-> FALSE, ok |-> FALSE]
  ELSE LET v == CASE resp.kind = "plan" ->
                       replanner_validate(resp.steps, 1, available_tools, ps, <<>>)
                  [] resp.kind = "unparseable" -> Rejected("ReplanParseFailure")
                  [] OTHER -> Rejected("ReplanFailure")
       IN IF v.ok
            THEN [plan |-> v.plan, replan_count |-> count + 1, error |-> None,
                  llm |-> TRUE, ok |-> TRUE]
            ELSE [plan |-> pl, replan_count |-> count, error |-> v.err,
                  llm |-> TRUE, ok |-> FALSE]

\* Variant: a rejection also empties the plan, as planner_node does.
replanner_node_clears(count, pl, ps, resp, available_tools) ==
  IF count >= max_replan_count
    THEN [plan |-> pl, replan_count |-> count, error |-> "ReplanLimitExceeded",
          llm |-> FALSE, ok |-> FALSE]
  ELSE LET v == CASE resp.kind = "plan" ->
                       replanner_validate(resp.steps, 1, available_tools, ps, <<>>)
                  [] resp.kind = "unparseable" -> Rejected("ReplanParseFailure")
                  [] OTHER -> Rejected("ReplanFailure")
       IN IF v.ok
            THEN [plan |-> v.plan, replan_count |-> count + 1, error |-> None,
                  llm |-> TRUE, ok |-> TRUE]
            ELSE [plan |-> <<>>, replan_count |-> count, error |-> v.err,
                  llm |-> TRUE, ok |-> FALSE]

\* replanner_node: limit check first (no backend call), else the delta for
\* the backend response.  changed: the keys of the delta.
replanner_node(count, pl, ps, resp, available_tools) ==
  IF count >= max_replan_count
    THEN [plan |-> pl, replan_count |-> count, error |-> "ReplanLimitExceeded",
          llm |-> FALSE, ok |-> FALSE]
  ELSE LET v == CASE resp.kind = "plan" ->
                       replanner_validate(resp.steps, 1, available_tools, ps, <<>>)
                  [] resp.kind = "unparseable" -> Rejected("ReplanParseFailure")
                  [] OTHER -> Rejected("ReplanFailure")
       IN IF v.ok
            THEN [plan |-> v.plan, replan_count |-> count + 1, error |-> None,
                  llm |-> TRUE, ok |-> TRUE]
            ELSE [plan |-> pl, replan_count |-> count, error |-> v.err,
                  llm |-> TRUE, ok |-> FALSE]

\* ---------------------------------------------------------------- executor
\* int(input_from.replace("step_", "")): the referenced id, or NoId when
\* int() raises ValueError.
ref_step_id(input_from) ==
  CASE input_from = "step_1" -> 1
    [] input_from = "step_2" -> 2
    [] input_from = "step_3" -> 3
    [] input_from = "step_99" -> 99
    [] OTHER -> NoId

\* Variant: the loop keeps the last StepResult that carries the id.
resolve_input_latest(step, ps) ==
  LET ref == ref_step_id(step.input_from)
      hits == {i \in 1..Len(ps) : ps[i].step.step_id = ref}
  IN IF step.input_from # None /\ step.input_from # "" /\ ps # <<>>
        /\ ref # NoId /\ hits # {}
       THEN [tool_input |-> Scalar(ps[CHOOSE i \in hits : \A j \in hits : i >= j].output),
             from_previous_step |-> TRUE]
       ELSE [tool_input |-> step.input, from_previous_step |-> FALSE]

\* Input resolution of executor_node: the output of the first StepResult
\* whose step_id is the referenced one, else the literal input.
resolve_input(step, ps) ==
  LET ref == ref_step_id(step.input_from)
      hits == {i \in 1..Len(ps) : ps[i].step.step_id = ref}
  IN IF step.input_from # None /\ step.input_from # "" /\ ps # <<>>
        /\ ref # NoId /\ hits # {}
       THEN [tool_input |-> Scalar(ps[CHOOSE i \in hits : \A j \in hits : i <= j].output),
             from_previous_step |-> TRUE]
       ELSE [tool_input |-> step.input, from_previous_step |-> FALSE]

\* The keyword arguments executor_node passes to run_tool.
executor_kwargs(tool_name) ==
  IF tool_name \in SEARCH_TOOLS
    THEN {"context", "from_previous_step", "history", "intent", "time_sensitive"}
    ELSE {}

StepResult(step, status, output) ==
  [step |-> step, status |-> status, output |-> output]

\* Variant: the except branch records a failure without the message.
step_result_nomessage(step, out) ==
  IF out.raised THEN StepResult(step, "failure", None)
                ELSE StepResult(step, "success", out.value)

\* The try/except of executor_node around run_tool.
step_result(step, out) ==
  IF out.raised THEN StepResult(step, "failure", out.value)
                ELSE StepResult(step, "success", out.value)

\* The run_tool call of one executor cycle: the tool, the resolved input,
\* the derived-from-a-previous-step flag, the keyword arguments passed, and
\* whether the tool callable was reached and with which arguments.
Call(tool_name, r, kwargs, out) ==
  [tool |-> tool_name, input |-> r.tool_input,
   from_previous_step |-> r.from_previous_step, kwargs |-> kwargs,
   called |-> out.called, args |-> out.args]

NoCall ==
  [tool |-> None, input |-> Absent, from_previous_step |-> FALSE,
   kwargs |-> {}, called |-> FALSE, args |-> {}]

\* Variant: plan.pop() takes the last step instead of the head.
executor_node_poplast(pl, ps, fails) ==
  IF pl = <<>>
    THEN [plan |-> <<>>, past_steps |-> ps, ran |-> FALSE,
          out |-> Outcome(FALSE, None, FALSE, {}), call |-> NoCall]
  ELSE LET step == Last(pl)
           r == resolve_input(step, ps)
           out == run_tool(step.tool, r.tool_input, executor_kwargs(step.tool),
                           r.from_previous_step, fails)
       IN [plan |-> SubSeq(pl, 1, Len(pl) - 1),
           past_steps |-> Append(ps, step_result(step, out)),
           ran |-> TRUE, out |-> out,
           call |-> Call(step.tool, r, executor_kwargs(step.tool), out)]

\* Variant: the head step is read (plan[0]) and left in the plan.
executor_node_nopop(pl, ps, fails) ==
  IF pl = <<>>
    THEN [plan |-> <<>>, past_steps |-> ps, ran |-> FALSE,
          out |-> Outcome(FALSE, None, FALSE, {}), call |-> NoCall]
  ELSE LET step == Head(pl)
           r == resolve_input(step, ps)
           out == run_tool(step.tool, r.tool_input, executor_kwargs(step.tool),
                           r.from_previous_step, fails)
       IN [plan |-> pl,
           past_steps |-> Append(ps, step_result(step, out)),
           ran |-> TRUE, out |-> out,
           call |-> Call(step.tool, r, executor_kwargs(step.tool), out)]

\* Variant: the returned past_steps holds the new StepResult only.
executor_node_freshlog(pl, ps, fails) ==
  IF pl = <<>>
    THEN [plan |-> <<>>, past_steps |-> ps, ran |-> FALSE,
          out |-> Outcome(FALSE, None, FALSE, {}), call |-> NoCall]
  ELSE LET step == Head(pl)
           r == resolve_input(step, ps)
           out == run_tool(step.tool, r.tool_input, executor_kwargs(step.tool),
                           r.from_previous_step, fails)
       IN [plan |-> Tail(pl), past_steps |-> <<step_result(step, out)>>,
           ran |-> TRUE, out |-> out,
           call |-> Call(step.tool, r, executor_kwargs(step.tool), out)]

\* Variant: on an empty plan the execution log is returned empty.
executor_node_emptyclears(pl, ps, fails) ==
  IF pl = <<>>
    THEN [plan |-> <<>>, past_steps |-> <<>>, ran |-> FALSE,
          out |-> Outcome(FALSE, None, FALSE, {}), call |-> NoCall]
  ELSE LET step == Head(pl)
           r == resolve_input(step, ps)
           out == run_tool(step.tool, r.tool_input, executor_kwargs(step.tool),
                           r.from_previous_step, fails)
       IN [plan |-> Tail(pl), past_steps |-> Append(ps, step_result(step, out)),
           ran |-> TRUE, out |-> out,
           call |-> Call(step.tool, r, executor_kwargs(step.tool), out)]

\* executor_node: the delta {plan, past_steps}; out is the run_tool outcome
\* (ran = FALSE: the plan was empty and nothing was dispatched).
executor_node(pl, ps, fails) ==
  IF pl = <<>>
    THEN [plan |-> <<>>, past_steps |-> ps, ran |-> FALSE,
          out |-> Outcome(FALSE, None, FALSE, {}), call |-> NoCall]
  ELSE LET step == Head(pl)
           r == resolve_input(step, ps)
           out == run_tool(step.tool, r.tool_input, executor_kwargs(step.tool),
                           r.from_previous_step, fails)
       IN [plan |-> Tail(pl), past_steps |-> Append(ps, step_result(step, out)),
           ran |-> TRUE, out |-> out,
           call |-> Call(step.tool, r, executor_kwargs(step.tool), out)]

\* --------------------------------------------------------- classification
\* A backend answer to the classifier: it raises, or a text whose labeled
\* fields are present (a value) or missing (None).
ClassifierResponse(raises, i, q, n, t) ==
  [raises |-> raises, intent |-> i, query |-> q, needs |-> n, time |-> t]

\* The labels the patterns of _parse_intent_response accept.
INTENTS == {"new_question", "follow_up", "clarification", "chitchat"}

TIME_SENSITIVITIES == {"none", "current", "specified"}

\* str.lower() on the texts the backend writes after a label.
lower(x) ==
  CASE x = "CHITCHAT" -> "chitchat"
    [] x = "Current" -> "current"
    [] x = "False" -> "false"
    [] x = "None" -> "none"
    [] OTHER -> x

\* Variant: the text after a label is taken as it is, whatever it says.
_parse_intent_response_anylabel(resp, fallback_query) ==
  LET i == IF resp.intent # None THEN lower(resp.intent) ELSE "new_question"
      q == IF resp.query # None /\ resp.query # "" /\ lower(resp.query) # "none"
             THEN resp.query ELSE fallback_query
      n == IF resp.needs # None THEN lower(resp.needs) = "true" ELSE TRUE
      t == IF resp.time # None THEN lower(resp.time) ELSE "none"
  IN [intent |-> i,
      rewritten_query |-> IF i = "chitchat" THEN "" ELSE q,
      needs_tool |-> IF i = "chitchat" THEN FALSE ELSE n,
      time_sensitive |-> t]

\* Variant: a chitchat answer keeps the parsed needs_tool.
_parse_intent_response_keepneeds(resp, fallback_query) ==
  LET i == IF lower(resp.intent) \in INTENTS THEN lower(resp.intent)
           ELSE "new_question"
      q == IF resp.query # None /\ resp.query # "" /\ lower(resp.query) # "none"
             THEN resp.query ELSE fallback_query
      n == IF lower(resp.needs) \in {"true", "false"}
             THEN lower(resp.needs) = "true" ELSE TRUE
      t == IF lower(resp.time) \in TIME_SENSITIVITIES THEN lower(resp.time)
           ELSE "none"
  IN [intent |-> i,
      rewritten_query |-> IF i = "chitchat" THEN "" ELSE q,
      needs_tool |-> n,
      time_sensitive |-> t]

\* A label whose pattern does not match (the label is missing, or what
\* follows it is not one of the accepted words) leaves the default.
_parse_intent_response(resp, fallback_query) ==
  LET i == IF lower(resp.intent) \in INTENTS THEN lower(resp.intent)
           ELSE "new_question"
      q == IF resp.query # None /\ resp.query # "" /\ lower(resp.query) # "none"
             THEN resp.query ELSE fallback_query
      n == IF lower(resp.needs) \in {"true", "false"}
             THEN lower(resp.needs) = "true" ELSE TRUE
      t == IF lower(resp.time) \in TIME_SENSITIVITIES THEN lower(resp.time)
           ELSE "none"
  IN [intent |-> i,
      rewritten_query |-> IF i = "chitchat" THEN "" ELSE q,
      needs_tool |-> IF i = "chitchat" THEN FALSE ELSE n,
      time_sensitive |-> t]

intent_classifier_node(resp, user_input) ==
  IF resp.raises
    THEN [intent |-> "new_question", rewritten_query |-> user_input,
          needs_tool |-> TRUE, time_sensitive |-> "none"]
  ELSE LET r == _parse_intent_response(resp, user_input)
       IN [intent |-> r.intent,
           rewritten_query |-> IF r.rewritten_query # "" THEN r.rewritten_query
                                                         ELSE user_input,
           needs_tool |-> r.needs_tool,
           time_sensitive |-> r.time_sensitive]

\* ------------------------------------------------------------------ edges
after_intent_classifier(nt) ==
  IF nt THEN "planner" ELSE "final_answer"

\* Variant: the error test is missing.
after_planner_noerror(err, pl) ==
  IF pl # <<>> THEN "executor" ELSE "final_answer"

after_planner(err, pl) ==
  IF err # None THEN "error_handler"
  ELSE IF pl # <<>> THEN "executor"
  ELSE "final_answer"

\* Variant: the remaining plan is tested before the status of the last step.
after_executor_planfirst(ps, pl) ==
  IF ps = <<>> THEN "final_answer"
  ELSE IF pl # <<>> THEN "executor"
  ELSE IF Last(ps).status = "failure" THEN "replanner"
  ELSE "final_answer"

\* Variant: a failed step is retried by the executor instead of re-planned.
after_executor_retry(ps, pl) ==
  IF ps = <<>> THEN "final_answer"
  ELSE IF Last(ps).status = "failure" THEN "executor"
  ELSE IF pl # <<>> THEN "executor"
  ELSE "final_answer"

\* Variant: an exhausted plan is re-planned whatever the last status.
after_executor_exhausted(ps, pl) ==
  IF ps = <<>> THEN "final_answer"
  ELSE IF pl # <<>> THEN "executor"
  ELSE "replanner"

\* Variant: the status of the last StepResult is not looked at.
after_executor_nofailcheck(ps, pl) ==
  IF ps = <<>> THEN "final_answer"
  ELSE IF pl # <<>> THEN "executor"
  ELSE "final_answer"

after_executor(ps, pl) ==
  IF ps = <<>> THEN "final_answer"
  ELSE IF Last(ps).status = "failure" THEN "replanner"
  ELSE IF pl # <<>> THEN "executor"
  ELSE "final_answer"

\* Variant: a rejected re-plan goes to the final answer.
after_replanner_answer(err) ==
  IF err # None THEN "final_answer" ELSE "executor"

after_replanner(err) ==
  IF err # None THEN "error_handler" ELSE "executor"

\* ---------------------------------------------------------------- replies
\* The result of a turn: which prompt produced it, the error text it
\* quotes, and the entries written into it, one per StepResult used.
Reply(kind, err, entries) == [kind |-> kind, error |-> err, entries |-> entries]

\* result of initial_state: nothing has been written yet.
NoReply == Reply(None, None, <<>>)

\* One "### Step i" block of the execution results: the tool of the step
\* (no step of these plans carries a task), its status and its output.
ResultBlock(sr) ==
  [tool |-> sr.step.tool, status |-> sr.status, output |-> sr.output]

\* One "i. tool [status]" line of the error trace.
TraceLine(sr) == [tool |-> sr.step.tool, status |-> sr.status]

\* Variant: failed steps are left out of the execution results.
final_answer_node_successes(ps) ==
  IF ps = <<>> THEN Reply("direct_reply", None, <<>>)
  ELSE Reply("answer_from_steps", None,
             LET ok == SelectSeq(ps, LAMBDA sr : sr.status = "success")
             IN [i \in 1..Len(ok) |-> ResultBlock(ok[i])])

\* final_answer_node: the conversational prompt when nothing was executed,
\* else the answer prompt over every StepResult in order.
final_answer_node(ps) ==
  IF ps = <<>> THEN Reply("direct_reply", None, <<>>)
  ELSE Reply("answer_from_steps", None,
             [i \in 1..Len(ps) |-> ResultBlock(ps[i])])

\* Variant: the trace names the failed step only.
error_handler_node_lastonly(err, ps) ==
  Reply("error_message", err,
        IF ps = <<>> THEN <<>> ELSE <<TraceLine(Last(ps))>>)

\* error_handler_node: the error text, then the trace when steps were run.
error_handler_node(err, ps) ==
  Reply("error_message", err,
        IF ps = <<>> THEN <<>> ELSE [i \in 1..Len(ps) |-> TraceLine(ps[i])])

\* ------------------------------------------------------------ environment
\* Steps the generation backend writes into its plans in the turns of world
\* "orch": a tool call that may succeed or fail, one whose input is missing,
\* a high-risk call, and a tool outside the allow-list.
OrchSteps ==
  {RawStep(NoId, "get_weather", Scalar("Seoul"), Absent, None),
   RawStep(NoId, "get_weather", Absent, Absent, None),
   RawStep(NoId, "python_repl", Scalar("code"), Absent, None),
   RawStep(NoId, "sudo_shell", Scalar("rm"), Absent, None)}

\* World "ids": steps with and without a step_id, with the payload under
\* input, under query, or under both with an empty input ("" or {}).
IdsSteps ==
  {RawStep(NoId, "get_weather", Absent, Scalar("Seoul"), None),
   RawStep(2, "calculator", Scalar(""), Scalar("1+1"), None),
   RawStep(NoId, "calculator", Scalar("2+2"), Absent, None),
   RawStep(1, "get_weather", Structured({}), Scalar("Busan"), None)}

\* World "chain": a first step, and steps of a search tool and of another
\* tool that take their input from step 1.
ChainSteps ==
  {RawStep(NoId, "get_weather", Scalar("Seoul"), Absent, None),
   RawStep(NoId, "calculator", Scalar("1+1"), Absent, "step_1"),
   RawStep(NoId, "web_search", Scalar("news"), Absent, "step_1")}

\* World "classify": a step that may succeed or fail and one without input.
ClassifySteps ==
  {RawStep(NoId, "get_weather", Scalar("Seoul"), Absent, None),
   RawStep(NoId, "get_weather", Absent, Absent, None)}

\* World "renumber": a first step that may fail and a step of a tool outside
\* the search group that takes its input from step 1, in plans and in
\* revised plans alike.
RenumberSteps ==
  {RawStep(NoId, "get_weather", Scalar("Seoul"), Absent, None),
   RawStep(NoId, "calculator", Scalar("1+1"), Absent, "step_1")}

BackendSteps(w) ==
  CASE w = "orch" -> OrchSteps
    [] w = "classify" -> ClassifySteps
    [] w = "ids" -> IdsSteps
    [] w = "chain" -> ChainSteps
    [] w = "renumber" -> RenumberSteps
    [] OTHER -> {}

\* Steps the backend writes into its revised plans: those of its plans,
\* except in world "ids" the steps of a tool that does not fail, and in
\* world "chain" the first step and the chained step of the search tool.
ReplanSteps(w) ==
  CASE w = "ids" -> {st \in IdsSteps : st.tool = "calculator"}
    [] w = "chain" -> {st \in ChainSteps : st.tool # "calculator"}
    [] OTHER -> BackendSteps(w)

SeqsUpTo(S, n) == UNION {[1..k -> S] : k \in 0..n}

\* The answers of the backend to a plan request, plans of at most n steps.
PlanResponses(w, n) ==
  {Response("raise", <<>>), Response("unparseable", <<>>),
   Response("invalid", <<>>)}
  \cup {Response("plan", st) : st \in SeqsUpTo(BackendSteps(w), n)}

\* The answers of the backend to a re-plan request.
ReplanResponses(w, n) ==
  {Response("raise", <<>>), Response("unparseable", <<>>),
   Response("invalid", <<>>)}
  \cup {Response("plan", st) : st \in SeqsUpTo(ReplanSteps(w), n)}

\* The answers of the backend to the classifier in the turns of world
\* "orch": a follow-up that needs tools, a question that needs none, and
\* chitchat.
OrchClassifications ==
  {ClassifierResponse(FALSE, "follow_up", "rewritten", "true", "current"),
   ClassifierResponse(FALSE, "new_question", "rewritten", "false", None),
   ClassifierResponse(FALSE, "chitchat", "rewritten", "true", None)}

\* World "classify": the backend raises, answers without any label, with
\* labels followed by other words, in other letter case, and with a
\* clarification whose rewritten query is empty.
ClassifyClassifications ==
  {ClassifierResponse(TRUE, None, None, None, None),
   ClassifierResponse(FALSE, None, None, None, None),
   ClassifierResponse(FALSE, "banana", "None", "maybe", "soon"),
   ClassifierResponse(FALSE, "CHITCHAT", "rewritten", "true", "Current"),
   ClassifierResponse(FALSE, "clarification", "", "False", "specified"),
   ClassifierResponse(FALSE, "follow_up", "rewritten", "true", "current")}

ClassifierResponses(w) ==
  CASE w \in {"orch", "ids", "chain", "renumber"} -> OrchClassifications
    [] w = "classify" -> ClassifyClassifications
    [] OTHER -> {}

\* What the last stage did: llm = it asked the generation backend, ran = it
\* called run_tool, called = a tool callable was invoked, exc = the
\* exception run_tool raised (None when it returned), escaped = the stage
\* itself raised.
Did(node, llm, ran, called, exc, escaped) ==
  [node |-> node, llm |-> llm, ran |-> ran, called |-> called, exc |-> exc,
   escaped |-> escaped]

\* ------------------------------------------------------------------- turn
\* initial_state of run_agent, control at START -> intent_classifier.
InitTurn ==
  /\ pc = "intent_classifier"
  /\ prev = "START"
  /\ intent = ""
  /\ rewritten_query = ""
  /\ needs_tool = TRUE
  /\ time_sensitive = "none"
  /\ plan = <<>>
  /\ past_steps = <<>>
  /\ replan_count = 0
  /\ error = None
  /\ result = NoReply
  /\ calls = [classify |-> 0, plan |-> 0, replan |-> 0, replan_llm |-> 0]
  /\ dispatched = 0
  /\ last = Did("START", FALSE, FALSE, FALSE, None, FALSE)
  /\ proposal = NoResponse
  /\ call = NoCall

Init ==
  /\ InitTurn
  /\ world = "orch"

Classify ==
  /\ pc = "intent_classifier"
  /\ \E resp \in ClassifierResponses(world) :
       LET d == intent_classifier_node(resp, Utterance)
       IN /\ intent' = d.intent
          /\ rewritten_query' = d.rewritten_query
          /\ needs_tool' = d.needs_tool
          /\ time_sensitive' = d.time_sensitive
          /\ pc' = after_intent_classifier(d.needs_tool)
          /\ proposal' = Response("classification", <<resp>>)
  /\ prev' = pc
  /\ calls' = [calls EXCEPT !.classify = @ + 1]
  /\ last' = Did("intent_classifier", TRUE, FALSE, FALSE, None, FALSE)
  /\ call' = NoCall
  /\ UNCHANGED <<plan, past_steps, replan_count, error, result,
                 world, dispatched>>

Planner ==
  /\ pc = "planner"
  /\ \E resp \in PlanResponses(world, MaxPlanLen) :
       LET d == planner_node(resp, get_available_tools)
       IN /\ plan' = d.plan
          /\ past_steps' = d.past_steps
          /\ replan_count' = IF d.sets_count THEN d.replan_count ELSE replan_count
          /\ error' = d.error
          /\ pc' = after_planner(d.error, d.plan)
          /\ proposal' = resp
  /\ prev' = pc
  /\ calls' = [calls EXCEPT !.plan = @ + 1]
  /\ last' = Did("planner", TRUE, FALSE, FALSE, None, FALSE)
  /\ call' = NoCall
  /\ UNCHANGED <<intent, rewritten_query, needs_tool, time_sensitive, result,
                 world, dispatched>>

Executor ==
  /\ pc = "executor"
  /\ \E fails \in BOOLEAN :
       LET d == executor_node(plan, past_steps, fails)
       IN /\ plan' = d.plan
          /\ past_steps' = d.past_steps
          /\ dispatched' = dispatched + (IF d.ran THEN 1 ELSE 0)
          /\ last' = Did("executor", FALSE, d.ran, d.out.called,
                         IF d.out.raised THEN d.out.value ELSE None, FALSE)
          /\ pc' = after_executor(d.past_steps, d.plan)
          /\ call' = d.call
  /\ prev' = pc
  /\ proposal' = NoResponse
  /\ UNCHANGED <<intent, rewritten_query, needs_tool, time_sensitive,
                 replan_count, error, result, world, calls>>

Replanner ==
  /\ pc = "replanner"
  /\ \E resp \in ReplanResponses(world, MaxPlanLen) :
       LET d == replanner_node(replan_count, plan, past_steps, resp,
                               get_available_tools)
       IN /\ plan' = d.plan
          /\ replan_count' = d.replan_count
          /\ error' = IF d.ok THEN error ELSE d.error
          /\ calls' = [calls EXCEPT !.replan = @ + 1,
                                    !.replan_llm = @ + (IF d.llm THEN 1 ELSE 0)]
          /\ last' = Did("replanner", d.llm, FALSE, FALSE, None, FALSE)
          /\ pc' = after_replanner(IF d.ok THEN error ELSE d.error)
          /\ proposal' = IF d.llm THEN resp ELSE NoResponse
  /\ prev' = pc
  /\ call' = NoCall
  /\ UNCHANGED <<intent, rewritten_query, needs_tool, time_sensitive,
                 past_steps, result, world, dispatched>>

\* final_answer_node: one backend call outside any try; when it raises the
\* exception leaves the graph and result stays unset.
FinalAnswer ==
  /\ pc = "final_answer"
  /\ \E raises \in BOOLEAN :
       /\ result' = IF raises THEN result ELSE final_answer_node(past_steps)
       /\ last' = Did("final_answer", TRUE, FALSE, FALSE, None, raises)
  /\ proposal' = NoResponse
  /\ call' = NoCall
  /\ pc' = "END"
  /\ prev' = pc
  /\ UNCHANGED <<intent, rewritten_query, needs_tool, time_sensitive, plan,
                 past_steps, replan_count, error, world, calls, dispatched>>

ErrorHandler ==
  /\ pc = "error_handler"
  /\ result' = error_handler_node(error, past_steps)
  /\ last' = Did("error_handler", FALSE, FALSE, FALSE, None, FALSE)
  /\ proposal' = NoResponse
  /\ call' = NoCall
  /\ pc' = "END"
  /\ prev' = pc
  /\ UNCHANGED <<intent, rewritten_query, needs_tool, time_sensitive, plan,
                 past_steps, replan_count, error, world, calls, dispatched>>

Next ==
  \/ Classify
  \/ Planner
  \/ Executor
  \/ Replanner
  \/ FinalAnswer
  \/ ErrorHandler

Spec == Init /\ [][Next]_vars

\* One stage is active at a time and the graph runs each scheduled stage.
FairSpec == Spec /\ WF_vars(Next)

\* ------------------------------------------------------------- invocation
\* run_tool taken alone: the calls of worlds "invoke" (the registry of
\* src/) and "plugin" (the same registry with one more tool, registered
\* without an entry in TOOL_SCHEMAS).
ExtendedRegistry == TOOLS \cup {"plugin"}

Registry(w) == IF w = "plugin" THEN ExtendedRegistry ELSE TOOLS

InvokeTools == TOOLS \cup {"plugin", "sudo_shell"}

InvokeInputs ==
  {Absent, Scalar("x"), Scalar(""), Structured({}),
   Structured({<<"query", "x">>}),
   Structured({<<"query", "x">>, <<"top_k", "5">>}),
   Structured({<<"city", "Seoul">>, <<"units", "metric">>}),
   Other("list")}

\* The shapes of a call: run_tool(name, input), the call with the three
\* declared keyword arguments, and the call executor_node writes.
InvokeKwargs(tool_name) ==
  {{}, {"context", "from_previous_step", "history"}, executor_kwargs(tool_name)}

InitCall(w) ==
  /\ pc = "invoke"
  /\ prev = "START"
  /\ intent = ""
  /\ rewritten_query = ""
  /\ needs_tool = TRUE
  /\ time_sensitive = "none"
  /\ plan = <<>>
  /\ past_steps = <<>>
  /\ replan_count = 0
  /\ error = None
  /\ result = None
  /\ calls = [classify |-> 0, plan |-> 0, replan |-> 0, replan_llm |-> 0]
  /\ dispatched = 0
  /\ last = Did("START", FALSE, FALSE, FALSE, None, FALSE)
  /\ proposal = NoResponse
  /\ world = w
  /\ \E t \in InvokeTools, x \in InvokeInputs, b \in BOOLEAN :
       \E kw \in InvokeKwargs(t) :
         call = [tool |-> t, input |-> x,
                 from_previous_step |-> b /\ "from_previous_step" \in kw,
                 kwargs |-> kw, called |-> FALSE, args |-> {}]

\* What a call of run_tool did with its input: reached = the call got as
\* far as validate_tool_input, norm = what validate_tool_input returned.
Normalization(reached, norm) == [reached |-> reached, norm |-> norm]

\* One call of run_tool; result holds the normalization of its input.
Invoke ==
  /\ pc = "invoke"
  /\ \E fails \in BOOLEAN :
       LET out == run_tool_in(Registry(world), call.tool, call.input,
                              call.kwargs, call.from_previous_step, fails)
       IN /\ call' = [call EXCEPT !.called = out.called, !.args = out.args]
          /\ last' = Did("run_tool", FALSE, TRUE, out.called,
                         IF out.raised THEN out.value ELSE None, FALSE)
  /\ result' = IF call.kwargs \subseteq run_tool_params
                  /\ call.tool \in Registry(world)
                 THEN Normalization(TRUE, validate_tool_input(call.tool, call.input))
                 ELSE Normalization(FALSE, ValidatedNone)
  /\ pc' = "END"
  /\ prev' = pc
  /\ UNCHANGED <<intent, rewritten_query, needs_tool, time_sensitive, plan,
                 past_steps, replan_count, error, world, calls, dispatched,
                 proposal>>

InitInvoke == InitCall("invoke")

SpecInvoke == InitInvoke /\ [][Invoke]_vars

InitPlugin == InitCall("plugin")

SpecPlugin == InitPlugin /\ [][Invoke]_vars

\* Turns of world "classify".
InitClassify ==
  /\ InitTurn
  /\ world = "classify"

SpecClassify == InitClassify /\ [][Next]_vars

\* Turns whose backend writes the plans of world "ids".
InitIds ==
  /\ InitTurn
  /\ world = "ids"

SpecIds == InitIds /\ [][Next]_vars

\* Turns whose backend writes the plans of world "chain".
InitChain ==
  /\ InitTurn
  /\ world = "chain"

SpecChain == InitChain /\ [][Next]_vars

\* Turns whose backend writes the plans of world "renumber".
InitRenumber ==
  /\ InitTurn
  /\ world = "renumber"

SpecRenumber == InitRenumber /\ [][Next]_vars

TypeOK ==
  /\ pc \in {"intent_classifier", "planner", "executor", "replanner",
             "final_answer", "error_handler", "invoke", "END"}
  /\ replan_count \in Nat
  /\ Len(plan) <= MaxPlanLen

\* ================================================================= claims
Edges ==
  {<<"intent_classifier", "planner">>, <<"intent_classifier", "final_answer">>,
   <<"planner", "error_handler">>, <<"planner", "executor">>,
   <<"planner", "final_answer">>,
   <<"executor", "executor">>, <<"executor", "replanner">>,
   <<"executor", "final_answer">>,
   <<"replanner", "error_handler">>, <<"replanner", "executor">>,
   <<"final_answer", "END">>, <<"error_handler", "END">>}

\* C1: every transition of a turn is one of the edges Classify -> Plan (when
\* needs_tool) | Answer (otherwise); Plan -> Fail (error set) | Execute
\* (plan non-empty) | Answer; Execute -> Execute | Replan | Answer;
\* Replan -> Fail (error set) | Execute; Answer and Fail end the turn.
\* Classify and Plan each run at most once.
C1_OnlyGraphEdges ==
  [][/\ <<pc, pc'>> \in Edges
     /\ (pc = "intent_classifier" =>
           pc' = IF needs_tool' THEN "planner" ELSE "final_answer")
     /\ (pc = "planner" =>
           pc' = IF error' # None THEN "error_handler"
                 ELSE IF plan' # <<>> THEN "executor" ELSE "final_answer")
     /\ (pc = "replanner" =>
           pc' = IF error' # None THEN "error_handler" ELSE "executor")
     /\ calls'.classify <= 1
     /\ calls'.plan <= 1]_vars

C1_Witness ==
  /\ pc = "END"
  /\ prev = "error_handler"
  /\ calls.classify = 1
  /\ calls.plan = 1
  /\ calls.replan >= 2
  /\ dispatched >= 2

\* C2: after an Executor cycle the next stage is Answer when past_steps is
\* empty, else Replan when the last StepResult failed (also with steps left
\* in the plan), else Execute when the plan is non-empty, else Answer; and a
\* step is never dispatched right after a failed step unless the Re-planner
\* ran in between.
C2_ExecutorRouting ==
  [][pc = "executor" =>
       /\ pc' = IF past_steps' = <<>> THEN "final_answer"
                ELSE IF Last(past_steps').status = "failure" THEN "replanner"
                ELSE IF plan' # <<>> THEN "executor"
                ELSE "final_answer"
       /\ (dispatched' > dispatched /\ past_steps # <<>>
             /\ Last(past_steps).status = "failure"
           => prev = "replanner")]_vars

C2_Witness ==
  /\ pc = "replanner"
  /\ prev = "executor"
  /\ plan # <<>>
  /\ Last(past_steps).status = "failure"

\* C3: once the Planner or the Re-planner has set error the next stage is
\* the Error Handler, which dispatches nothing and asks the backend nothing;
\* Final Answer never runs with error set.
C3_FailClosed ==
  [][/\ (error = None /\ error' # None =>
           pc \in {"planner", "replanner"} /\ pc' = "error_handler")
     /\ (error # None =>
           /\ pc = "error_handler"
           /\ pc' = "END"
           /\ dispatched' = dispatched
           /\ calls' = calls
           /\ ~last'.llm /\ ~last'.ran /\ ~last'.called)
     /\ (pc = "final_answer" => error = None)]_vars

C3_Witness ==
  /\ pc = "END"
  /\ prev = "error_handler"
  /\ error = "DisallowedTool"
  /\ dispatched = 0

\* C4: 0 <= replan_count <= max_replan_count always; replan_count never
\* decreases, changes only in the Re-planner, and a Re-planner invocation
\* changes it by +1 when it accepts a plan and by 0 when it sets error.
C4_ReplanCountBounded ==
  /\ [](replan_count \in 0..max_replan_count)
  /\ [][/\ replan_count' >= replan_count
        /\ (replan_count' # replan_count => pc = "replanner")
        /\ (pc = "replanner" =>
              replan_count' = IF error' = None THEN replan_count + 1
                              ELSE replan_count)]_vars

C4_Witness ==
  /\ replan_count = max_replan_count
  /\ pc = "executor"
  /\ prev = "replanner"

\* C5: the Re-planner invoked with replan_count >= max_replan_count sets
\* error ReplanLimitExceeded without asking the backend, leaves plan,
\* past_steps and replan_count unchanged, and the next stage is Fail.
C5_LimitShortCircuit ==
  [][pc = "replanner" /\ replan_count >= max_replan_count =>
       /\ error' = "ReplanLimitExceeded"
       /\ ~last'.llm
       /\ calls'.replan_llm = calls.replan_llm
       /\ plan' = plan
       /\ past_steps' = past_steps
       /\ replan_count' = replan_count
       /\ pc' = "error_handler"]_vars

C5_Witness ==
  /\ pc = "error_handler"
  /\ prev = "replanner"
  /\ error = "ReplanLimitExceeded"
  /\ plan # <<>>
  /\ ~last.llm

\* C6: in a turn the Re-planner asks the backend for a revised plan at most
\* max_replan_count times, and once it has done so that many times the next
\* Re-planner invocation (the next step failure) ends in Fail.
C6_AtMostMaxReplanRequests ==
  /\ [](calls.replan_llm <= max_replan_count)
  /\ [][pc = "replanner" /\ calls.replan_llm = max_replan_count =>
          pc' = "error_handler" /\ calls'.replan_llm = calls.replan_llm]_vars

C6_Witness ==
  /\ pc = "END"
  /\ calls.replan_llm = max_replan_count
  /\ calls.replan = max_replan_count + 1
  /\ error = "ReplanLimitExceeded"

\* C7: every turn ends: whatever the backend and the tools do, the turn
\* eventually passes through Answer or Fail and stops.
C7_TurnTerminates ==
  <>(pc = "END" /\ prev \in {"final_answer", "error_handler"})

C7_Witness ==
  /\ pc = "END"
  /\ prev = "final_answer"
  /\ replan_count >= 1
  /\ Len(past_steps) >= 3

\* C8: an Executor invocation on a non-empty plan removes the head of the
\* plan, dispatches it once and appends its StepResult to past_steps; it
\* changes nothing else (replan_count, error, result, intent,
\* rewritten_query).
C8_ExecutorDelta ==
  [][pc = "executor" /\ plan # <<>> =>
       /\ plan' = Tail(plan)
       /\ Len(past_steps') = Len(past_steps) + 1
       /\ SubSeq(past_steps', 1, Len(past_steps)) = past_steps
       /\ Last(past_steps').step = Head(plan)
       /\ dispatched' = dispatched + 1
       /\ last'.ran
       /\ UNCHANGED <<replan_count, error, result, intent, rewritten_query,
                      needs_tool, calls>>]_vars

C8_Witness ==
  /\ last.node = "executor"
  /\ last.ran
  /\ plan # <<>>
  /\ Len(past_steps) = 1
  /\ plan[1] # past_steps[1].step

\* C9: an exception raised under run_tool becomes a StepResult with status
\* failure whose output is the exception message; the Executor itself does
\* not raise and does not set error, and the next stage is the Re-planner.
C9_ExceptionBecomesFailure ==
  [][pc = "executor" /\ last'.ran /\ last'.exc # None =>
       /\ Last(past_steps').status = "failure"
       /\ Last(past_steps').output = last'.exc
       /\ ~last'.escaped
       /\ error' = None
       /\ pc' = "replanner"]_vars

C9_Witness ==
  /\ pc = "replanner"
  /\ last.node = "executor"
  /\ last.exc = "MissingRequiredParameter"
  /\ ~last.called
  /\ Last(past_steps).status = "failure"
  /\ Last(past_steps).output = "MissingRequiredParameter"

\* C10: len(past_steps) is the number of steps dispatched so far; a dispatch
\* happens only in the Executor, takes the head of the plan out of the plan
\* and records that step, and outside the Planner and the Re-planner the
\* plan changes in no other way (a dequeued step does not come back).
C10_PastStepsCountDispatches ==
  /\ [](Len(past_steps) = dispatched)
  /\ [][/\ (dispatched' # dispatched =>
              /\ pc = "executor"
              /\ dispatched' = dispatched + 1
              /\ plan # <<>>
              /\ plan' = Tail(plan)
              /\ Last(past_steps').step = Head(plan))
        /\ (pc \notin {"planner", "replanner"} /\ plan' # plan =>
              dispatched' = dispatched + 1 /\ plan' = Tail(plan))]_vars

C10_Witness ==
  /\ pc = "END"
  /\ prev = "final_answer"
  /\ dispatched = 2
  /\ replan_count = 1
  /\ past_steps[1].step = past_steps[2].step

\* Tools of the steps recorded in past_steps.
PastTools(ps) == {ps[i].step.tool : i \in 1..Len(ps)}

\* The backend answered the plan request of the stage just run with a plan
\* (a response that parses and validates as a Plan).
Proposed == proposal.kind = "plan"

ProposedTools == {proposal.steps[i].tool : i \in 1..Len(proposal.steps)}

\* C11: after every Executor, Re-planner, Final Answer and Error Handler
\* stage the previous past_steps is a prefix of the new one: no StepResult
\* is removed, changed or reordered.
C11_PastStepsAppendOnly ==
  [][(pc \in {"executor", "replanner", "final_answer", "error_handler"}) =>
       IsPrefix(past_steps, past_steps')]_vars

C11_Witness ==
  /\ pc = "END"
  /\ prev = "error_handler"
  /\ error = "ReplanParseFailure"
  /\ Len(past_steps) = 2
  /\ past_steps[1].status = "success"

\* C12: a Planner proposal with a tool outside available_tools at any
\* position is rejected whole: error DisallowedTool, plan and past_steps
\* empty, next stage Fail, nothing dispatched then or later in the turn.
C12_DisallowedToolRejectsWholePlan ==
  /\ [][pc = "planner" /\ Proposed' /\ ~(ProposedTools' \subseteq get_available_tools) =>
          /\ error' = "DisallowedTool"
          /\ plan' = <<>>
          /\ past_steps' = <<>>
          /\ pc' = "error_handler"
          /\ dispatched' = 0]_vars
  /\ [][error = "DisallowedTool" =>
          dispatched' = dispatched /\ ~last'.ran /\ ~last'.called]_vars

C12_Witness ==
  /\ pc = "error_handler"
  /\ prev = "planner"
  /\ error = "DisallowedTool"
  /\ Len(proposal.steps) = 2
  /\ proposal.steps[1].tool \in get_available_tools
  /\ proposal.steps[2].tool \notin get_available_tools
  /\ plan = <<>>
  /\ dispatched = 0

\* C13: when the backend raises or answers the Planner with a text that is
\* not JSON or not a valid Plan, error is PlanGenerationFailure, plan and
\* past_steps are empty, the next stage is Fail and no step is executed.
C13_PlanGenerationFailure ==
  /\ [][pc = "planner" /\ proposal'.kind \in {"raise", "unparseable", "invalid"} =>
          /\ error' = "PlanGenerationFailure"
          /\ plan' = <<>>
          /\ past_steps' = <<>>
          /\ pc' = "error_handler"
          /\ dispatched' = 0]_vars
  /\ [][error = "PlanGenerationFailure" =>
          pc' = "END" /\ dispatched' = dispatched /\ ~last'.ran]_vars

C13_Witness ==
  /\ pc = "error_handler"
  /\ prev = "planner"
  /\ error = "PlanGenerationFailure"
  /\ proposal.kind = "invalid"
  /\ plan = <<>>
  /\ past_steps = <<>>

C15_UsedHighRiskToolKept ==
  [][/\ pc = "replanner"
     /\ Proposed'
     /\ ProposedTools' \subseteq get_available_tools
     /\ \E t \in ProposedTools' : get_tool_risk(t) = "high"
     /\ \A t \in ProposedTools' :
          get_tool_risk(t) = "high" => t \in PastTools(past_steps)
     => /\ error' = None
        /\ Len(plan') = Len(proposal'.steps)
        /\ pc' = "executor"]_vars

\* C16: a Re-planner invocation either accepts (plan becomes exactly the
\* validated steps of the proposal, replan_count grows by 1, error stays
\* unset) or rejects (error set; plan, past_steps and replan_count keep
\* their values).
C16_ReplannerAllOrNothing ==
  [][pc = "replanner" =>
       /\ past_steps' = past_steps
       /\ IF error' = None
            THEN /\ Proposed'
                 /\ plan' = [i \in 1..Len(proposal'.steps) |->
                               step_dict(proposal'.steps[i], i)]
                 /\ replan_count' = replan_count + 1
            ELSE /\ plan' = plan
                 /\ replan_count' = replan_count]_vars

C16_Witness ==
  /\ pc = "error_handler"
  /\ prev = "replanner"
  /\ error = "DisallowedTool"
  /\ plan # <<>>
  /\ replan_count = 1
  /\ Len(past_steps) = 2

\* The stage just run accepted the backend's plan.
AcceptedPlan ==
  /\ prev \in {"planner", "replanner"}
  /\ Proposed
  /\ error = None

\* C17: when no step of the backend's plan carries a step_id, the plan
\* accepted by the Planner or the Re-planner has step_ids 1, 2, ..., n in
\* plan order.
C17_SequentialStepIds ==
  [](AcceptedPlan /\ (\A i \in 1..Len(proposal.steps) :
                        proposal.steps[i].step_id = NoId)
       => /\ Len(plan) = Len(proposal.steps)
          /\ \A i \in 1..Len(plan) : plan[i].step_id = i)

C17_Witness ==
  /\ world = "ids"
  /\ AcceptedPlan
  /\ prev = "replanner"
  /\ Len(plan) = 2
  /\ \A i \in 1..2 : proposal.steps[i].step_id = NoId /\ plan[i].step_id = i
  /\ Len(past_steps) = 2

\* C18 as stated: the step_ids of an accepted plan are pairwise distinct.
C18_DistinctStepIds ==
  [](AcceptedPlan =>
       \A i, j \in 1..Len(plan) : i # j => plan[i].step_id # plan[j].step_id)

\* C19 as stated: a step whose input is present (whatever its value) has
\* the same input in the accepted plan.
C19_PresentInputKept ==
  [](AcceptedPlan =>
       \A i \in 1..Len(plan) :
         proposal.steps[i].input # Absent =>
           plan[i].input = proposal.steps[i].input)

\* C20 as stated: a dispatched step whose input_from names the step_id of a
\* StepResult of past_steps has its tool called with that StepResult's
\* output as input, and the call is flagged as derived from a previous
\* step.
C20_ChainedInputDelivered ==
  [][/\ pc = "executor"
     /\ plan # <<>>
     /\ ref_step_id(Head(plan).input_from) # NoId
     /\ \E i \in 1..Len(past_steps) :
          past_steps[i].step.step_id = ref_step_id(Head(plan).input_from)
     => /\ call'.from_previous_step
        /\ call'.called
        /\ \E i \in 1..Len(past_steps) :
             /\ past_steps[i].step.step_id = ref_step_id(Head(plan).input_from)
             /\ call'.input = Scalar(past_steps[i].output)
             /\ \E kv \in call'.args : kv[2] = past_steps[i].output]_vars

\* C21 as stated: a dispatched step whose input_from matches no StepResult
\* (no such step_id, N not an integer, or past_steps empty) is dispatched
\* with its literal input and the flag false, the resolution raises
\* nothing, and the tool is called with the literal input (its normalized
\* form) unless the normalization of the literal fails.
C21_UnresolvedKeepsLiteral ==
  [][/\ pc = "executor"
     /\ plan # <<>>
     /\ Head(plan).input_from # None
     /\ \/ past_steps = <<>>
        \/ ref_step_id(Head(plan).input_from) = NoId
        \/ \A i \in 1..Len(past_steps) :
             past_steps[i].step.step_id # ref_step_id(Head(plan).input_from)
     => /\ call'.input = Head(plan).input
        /\ ~call'.from_previous_step
        /\ ~last'.escaped
        /\ LET v == validate_tool_input(Head(plan).tool, Head(plan).input)
           IN IF v.raised THEN last'.exc = v.err
              ELSE call'.called /\ v.args \subseteq call'.args]_vars

\* C22 as stated: the dispatch of a search-group step is accepted by
\* run_tool: the step is recorded as failure only if the normalization of
\* its input fails or the tool callable raises, and as success whenever the
\* callable returns.
C22_SearchDispatchAccepted ==
  [][/\ pc = "executor"
     /\ plan # <<>>
     /\ Head(plan).tool \in SEARCH_TOOLS
     => /\ last'.ran
        /\ (Last(past_steps').status = "failure" =>
              \/ validate_tool_input(Head(plan).tool, call'.input).raised
              \/ call'.called /\ last'.exc = "ToolInvocationFailure")
        /\ (call'.called /\ last'.exc = None =>
              Last(past_steps').status = "success")]_vars

\* A call of run_tool has been made, and it got as far as the lookup of the
\* tool and the normalization of its input.
Invoked == last.node = "run_tool"

Normalized == Invoked /\ result.reached

\* Tools declared with capability group search.
SearchGroup ==
  {t \in DOMAIN TOOL_DEFINITIONS : TOOL_DEFINITIONS[t].group = "search"}

DeclaredParams(t) ==
  {TOOL_SCHEMAS[t].params[i].name : i \in 1..Len(TOOL_SCHEMAS[t].params)}

ArgNames(a) == {kv[1] : kv \in a}

\* C23: the search tools of the Executor, the tools run_tool merges context
\* into and the tools of group search are one set; a callable of that set
\* receives its normalized arguments plus the flag, the history and (when
\* passed) the utterance; any other callable receives only normalized
\* declared parameters.
C23_ContextForSearchToolsOnly ==
  [](/\ SEARCH_TOOLS = CONTEXT_TOOLS
     /\ CONTEXT_TOOLS = SearchGroup
     /\ (Normalized /\ call.called =>
           IF call.tool \in SearchGroup
             THEN /\ result.norm.args \subseteq call.args
                  /\ ArgNames(call.args) =
                       ArgNames(result.norm.args) \cup {"from_previous_step", "history"}
                       \cup (call.kwargs \cap {"context"})
                  /\ <<"from_previous_step",
                       IF call.from_previous_step THEN "True" ELSE "False">>
                       \in call.args
                  /\ ("context" \in call.kwargs =>
                        <<"context", Utterance>> \in call.args)
             ELSE /\ call.args = result.norm.args
                  /\ ArgNames(call.args) \subseteq DeclaredParams(call.tool)))

C23_Witness ==
  /\ Invoked
  /\ call.called
  /\ call.tool = "search_wikipedia"
  /\ call.from_previous_step
  /\ call.args = {<<"query", "x">>, <<"context", Utterance>>,
                  <<"from_previous_step", "True">>, <<"history", "messages">>}

\* C24: a call that names an unregistered tool fails with UnknownTool; the
\* input is not normalized and no callable is invoked.
C24_UnknownToolFirst ==
  [](Invoked /\ call.tool \notin Registry(world)
       /\ call.kwargs \subseteq run_tool_params
       => /\ last.exc = "UnknownTool"
          /\ ~call.called
          /\ ~result.reached)

C24_Witness ==
  /\ Invoked
  /\ call.tool = "sudo_shell"
  /\ call.input = Other("list")
  /\ last.exc = "UnknownTool"
  /\ ~call.called

\* C25: a missing input fails with MissingRequiredParameter without a call
\* when the schema has a required parameter, and gives a call without
\* supplied arguments when it has none; a tool whose schema declares no
\* input is called without arguments whatever the input is.
C25_AbsentInput ==
  [](Normalized /\ call.tool \in DOMAIN TOOL_SCHEMAS =>
       LET schema == TOOL_SCHEMAS[call.tool]
       IN /\ (~schema.hasInput => call.called /\ call.args = {})
          /\ (schema.hasInput /\ call.input = Absent =>
                IF \E i \in 1..Len(schema.params) : schema.params[i].required
                  THEN /\ last.exc = "MissingRequiredParameter"
                       /\ ~call.called
                  ELSE /\ call.called
                       /\ result.norm.args = {}))

C25_Witness ==
  /\ Invoked
  /\ call.tool = "get_weather"
  /\ call.input = Absent
  /\ last.exc = "MissingRequiredParameter"
  /\ ~call.called

\* C26: a string input never fails normalization: it is bound to the
\* required parameter, else to the first declared parameter, else dropped,
\* and at most one parameter is bound.
C26_ScalarInput ==
  [](Normalized /\ call.tool \in DOMAIN TOOL_SCHEMAS /\ call.input.kind = "scalar" =>
       LET schema == TOOL_SCHEMAS[call.tool]
           req == {i \in 1..Len(schema.params) : schema.params[i].required}
       IN /\ ~result.norm.raised
          /\ last.exc \notin {"MissingRequiredParameter", "UnsupportedInputType"}
          /\ Cardinality(result.norm.args) <= 1
          /\ result.norm.args =
               IF ~schema.hasInput \/ schema.params = <<>> THEN {}
               ELSE IF req # {}
                 THEN {<<schema.params[CHOOSE i \in req : \A j \in req : i <= j].name,
                         call.input.val>>}
               ELSE {<<schema.params[1].name, call.input.val>>})

C26_Witness ==
  /\ Invoked
  /\ call.tool = "rag_retrieve"
  /\ call.input = Scalar("")
  /\ call.called
  /\ result.norm.args = {<<"query", "">>}

\* C27: a mapping input gives, per declared parameter, the supplied value,
\* else the default, else MissingRequiredParameter when the parameter is
\* required (nothing when it is optional); undeclared keys are dropped.
C27_StructuredInput ==
  [](Normalized /\ call.tool \in DOMAIN TOOL_SCHEMAS
       /\ TOOL_SCHEMAS[call.tool].hasInput /\ call.input.kind = "structured" =>
       LET params == TOOL_SCHEMAS[call.tool].params
           m == call.input.map
           Supplied(i) == params[i].name \in ArgNames(m)
       IN IF \E i \in 1..Len(params) :
               ~Supplied(i) /\ ~params[i].hasDefault /\ params[i].required
            THEN /\ result.norm.raised
                 /\ last.exc = "MissingRequiredParameter"
                 /\ ~call.called
            ELSE /\ ~result.norm.raised
                 /\ result.norm.args =
                      {kv \in m : kv[1] \in DeclaredParams(call.tool)}
                      \cup {<<params[i].name, params[i].default>> :
                              i \in {j \in 1..Len(params) :
                                       ~Supplied(j) /\ params[j].hasDefault}}
                 /\ ArgNames(result.norm.args) \subseteq DeclaredParams(call.tool))

C27_Witness ==
  /\ Invoked
  /\ call.tool = "rag_retrieve"
  /\ call.input = Structured({<<"query", "x">>})
  /\ call.called
  /\ result.norm.args = {<<"query", "x">>, <<"top_k", "3">>}

\* C28: for a tool with declared parameters an input that is no None, no
\* str and no dict fails with UnsupportedInputType, without a call.
C28_UnsupportedInputType ==
  [](Normalized /\ call.tool \in DOMAIN TOOL_SCHEMAS
       /\ TOOL_SCHEMAS[call.tool].hasInput
       /\ call.input.kind \notin {"absent", "scalar", "structured"}
       => /\ last.exc = "UnsupportedInputType"
          /\ ~call.called)

C28_Witness ==
  /\ Invoked
  /\ call.tool = "calculator"
  /\ call.input = Other("list")
  /\ last.exc = "UnsupportedInputType"
  /\ ~call.called

Classified == prev = "intent_classifier" /\ proposal.kind = "classification"

\* C30: when the backend raises or its answer has none of the labels, the
\* classifier returns intent new_question, the utterance as rewritten
\* query, needs_tool true and time sensitivity none, and the next stage is
\* the Planner; whatever the answer, the intent and the time sensitivity
\* are among the accepted words, error stays unset and the stage does not
\* raise.
C30_ClassifierFallback ==
  [](Classified =>
       LET resp == proposal.steps[1]
       IN /\ (resp.raises \/ (/\ resp.intent = None /\ resp.query = None
                              /\ resp.needs = None /\ resp.time = None)
                => /\ intent = "new_question"
                   /\ rewritten_query = Utterance
                   /\ needs_tool
                   /\ time_sensitive = "none"
                   /\ pc = "planner")
          /\ intent \in INTENTS
          /\ time_sensitive \in TIME_SENSITIVITIES
          /\ needs_tool \in BOOLEAN
          /\ rewritten_query # ""
          /\ error = None
          /\ ~last.escaped
          /\ pc \in {"planner", "final_answer"})

C30_Witness ==
  /\ Classified
  /\ proposal.steps[1].raises
  /\ intent = "new_question"
  /\ rewritten_query = Utterance
  /\ needs_tool
  /\ time_sensitive = "none"
  /\ pc = "planner"

\* C31: Final Answer changes only result: it dispatches no step and calls
\* no tool, and plan, past_steps, replan_count and error keep their values.
\* With past_steps empty the reply is the direct conversational one; else
\* it is built from every StepResult in execution order, failures included.
C31_FinalAnswerOnlyResult ==
  [][(pc = "final_answer") =>
       /\ UNCHANGED <<plan, past_steps, replan_count, error, intent,
                      rewritten_query, needs_tool, time_sensitive>>
       /\ dispatched' = dispatched
       /\ ~last'.ran
       /\ ~last'.called
       /\ call' = NoCall
       /\ (~last'.escaped =>
             IF past_steps = <<>>
               THEN result' = Reply("direct_reply", None, <<>>)
               ELSE /\ result'.kind = "answer_from_steps"
                    /\ Len(result'.entries) = Len(past_steps)
                    /\ \A i \in 1..Len(past_steps) :
                         /\ result'.entries[i].tool = past_steps[i].step.tool
                         /\ result'.entries[i].status = past_steps[i].status
                         /\ result'.entries[i].output = past_steps[i].output)]_vars

C31_Witness ==
  /\ pc = "END"
  /\ prev = "final_answer"
  /\ ~last.escaped
  /\ Len(past_steps) = 2
  /\ past_steps[1].status = "failure"
  /\ past_steps[2].status = "success"
  /\ Len(result.entries) = 2
  /\ result.entries[1].status = "failure"

\* C32: the Error Handler runs only with error set and changes only result:
\* the message carries the error text and then one (tool, status) line per
\* StepResult in execution order, no line when past_steps is empty. A turn
\* that reaches the Error Handler ends with that message as its result.
C32_ErrorHandlerMessage ==
  /\ [](pc = "error_handler" => error # None)
  /\ [][(pc = "error_handler") =>
          /\ UNCHANGED <<plan, past_steps, replan_count, error, intent,
                         rewritten_query, needs_tool, time_sensitive>>
          /\ dispatched' = dispatched
          /\ ~last'.llm /\ ~last'.ran /\ ~last'.called
          /\ result'.kind = "error_message"
          /\ result'.error = error
          /\ Len(result'.entries) = Len(past_steps)
          /\ \A i \in 1..Len(past_steps) :
               /\ result'.entries[i].tool = past_steps[i].step.tool
               /\ result'.entries[i].status = past_steps[i].status]_vars
  /\ [](pc = "END" /\ prev = "error_handler" =>
          result.kind = "error_message" /\ result.error = error)
  /\ (pc = "error_handler" ~> (pc = "END" /\ result.kind = "error_message"))

C32_Witness ==
  /\ pc = "END"
  /\ prev = "error_handler"
  /\ result.kind = "error_message"
  /\ result.error = "HighRiskToolIntroduced"
  /\ Len(result.entries) = 2
  /\ result.entries[1].status = "success"
  /\ result.entries[2].status = "failure"

\* C33 (as stated): at every Re-planner invocation the last StepResult has
\* status failure, and the Executor stage that led to it (the only stage
\* between two consecutive Re-planner invocations that can lead to it)
\* dispatched a step, whose dispatch failed.
C33_Original ==
  [](pc = "replanner" =>
       /\ past_steps # <<>>
       /\ Last(past_steps).status = "failure"
       /\ last.ran)

\* C33 (amended): at every Re-planner invocation the last StepResult has
\* status failure and the stage just run is the Executor; that Executor
\* cycle either dispatched a step, which failed, or ran on the empty plan of
\* an accepted re-plan and dispatched nothing, leaving the earlier failure
\* as the last StepResult.
C33_ReplanOnlyAfterFailure ==
  /\ [](pc = "replanner" =>
          /\ past_steps # <<>>
          /\ Last(past_steps).status = "failure"
          /\ prev = "executor"
          /\ last.node = "executor"
          /\ (last.ran => last.exc # None)
          /\ (~last.ran => plan = <<>> /\ replan_count >= 1))
  /\ [][(pc = "executor" /\ pc' = "replanner") =>
          IF plan = <<>>
            THEN /\ prev = "replanner"
                 /\ dispatched' = dispatched
                 /\ past_steps' = past_steps
            ELSE /\ dispatched' = dispatched + 1
                 /\ Last(past_steps').status = "failure"]_vars

C33_Witness ==
  /\ pc = "replanner"
  /\ replan_count = 1
  /\ last.ran
  /\ dispatched = 3
  /\ past_steps[1].status = "failure"
  /\ past_steps[2].status = "success"
  /\ past_steps[3].status = "failure"

\* C35: whenever Final Answer runs with past_steps non-empty the last
\* StepResult has status success; a turn whose most recent dispatched step
\* failed does not reach Final Answer and does not end through it.
C35_AnswerOnlyAfterSuccess ==
  /\ [](pc = "final_answer" /\ past_steps # <<>> =>
          Last(past_steps).status = "success")
  /\ [](past_steps # <<>> /\ Last(past_steps).status = "failure" =>
          /\ pc # "final_answer"
          /\ ~(pc = "END" /\ prev = "final_answer"))
  /\ [][(pc = "executor" /\ past_steps' # <<>>
         /\ Last(past_steps').status = "failure") =>
          pc' = "replanner"]_vars

C35_Witness ==
  /\ pc = "final_answer"
  /\ prev = "executor"
  /\ replan_count = 2
  /\ Len(past_steps) = 3
  /\ past_steps[1].status = "failure"
  /\ past_steps[2].status = "failure"
  /\ past_steps[3].status = "success"

\* C36: the Executor run on an empty plan (an accepted re-plan with zero
\* steps) changes neither plan nor past_steps, dispatches nothing and calls
\* no tool, and the failed last StepResult sends control back to the
\* Re-planner. Each accepted empty re-plan adds one to replan_count, and once
\* replan_count has reached max_replan_count the Re-planner sets
\* ReplanLimitExceeded and the turn goes to Fail; it never goes to Answer
\* from such a cycle.
C36_EmptyReplanLoop ==
  /\ [][(pc = "executor" /\ plan = <<>>) =>
          /\ prev = "replanner"
          /\ replan_count >= 1
          /\ plan' = <<>>
          /\ past_steps' = past_steps
          /\ dispatched' = dispatched
          /\ ~last'.ran
          /\ ~last'.called
          /\ call' = NoCall
          /\ Last(past_steps).status = "failure"
          /\ pc' = "replanner"]_vars
  /\ [][(pc = "replanner" /\ ~last.ran) =>
          /\ pc' \in {"executor", "error_handler"}
          /\ (pc' = "executor" => replan_count' = replan_count + 1)
          /\ (replan_count = max_replan_count =>
                /\ error' = "ReplanLimitExceeded"
                /\ pc' = "error_handler")]_vars
  /\ [](pc = "END" /\ prev = "final_answer" /\ past_steps # <<>> =>
          Last(past_steps).status = "success")

C36_Witness ==
  /\ pc = "END"
  /\ prev = "error_handler"
  /\ error = "ReplanLimitExceeded"
  /\ replan_count = max_replan_count
  /\ calls.replan = max_replan_count + 1
  /\ dispatched = 1
  /\ plan = <<>>
  /\ Len(past_steps) = 1

\* C34: when the classifier's answer has intent chitchat, needs_tool is
\* false whatever the answer says after 'Needs tool' and rewritten_query is
\* the utterance. Whenever needs_tool is false the turn goes from Classify
\* to Answer: the Planner, the Executor and the Re-planner never run, no
\* tool is called, and past_steps is empty when Final Answer runs.
C34_ChitchatSkipsTools ==
  /\ [](Classified /\ ~proposal.steps[1].raises
          /\ lower(proposal.steps[1].intent) = "chitchat"
          => /\ intent = "chitchat"
             /\ ~needs_tool
             /\ rewritten_query = Utterance
             /\ pc = "final_answer")
  /\ [](~needs_tool =>
          /\ pc \in {"final_answer", "END"}
          /\ prev \in {"intent_classifier", "final_answer"}
          /\ calls.classify = 1 /\ calls.plan = 0 /\ calls.replan = 0
          /\ dispatched = 0
          /\ plan = <<>>
          /\ past_steps = <<>>
          /\ ~last.ran /\ ~last.called
          /\ error = None)
  /\ [][(~needs_tool /\ pc = "final_answer" /\ ~last'.escaped) =>
          result' = Reply("direct_reply", None, <<>>)]_vars

C34_Witness ==
  /\ pc = "END"
  /\ prev = "final_answer"
  /\ intent = "chitchat"
  /\ ~needs_tool
  /\ rewritten_query = Utterance
  /\ past_steps = <<>>
  /\ result = Reply("direct_reply", None, <<>>)

\* C37: when several StepResults carry the step_id that the input_from of
\* the dispatched step refers to (the steps of a revised plan are numbered
\* from 1 again), the Executor dispatches the step with the output of the
\* earliest of them, whatever its status: the error message of a failed
\* step is passed on like an output.
C37_EarliestMatchChained ==
  [][(/\ pc = "executor"
      /\ plan # <<>>
      /\ Head(plan).input_from # None
      /\ \E i \in 1..Len(past_steps) :
           past_steps[i].step.step_id = ref_step_id(Head(plan).input_from))
     => \E i \in 1..Len(past_steps) :
          /\ past_steps[i].step.step_id = ref_step_id(Head(plan).input_from)
          /\ \A j \in 1..(i - 1) :
               past_steps[j].step.step_id # ref_step_id(Head(plan).input_from)
          /\ call'.from_previous_step
          /\ call'.input = Scalar(past_steps[i].output)
          /\ (Head(plan).tool \notin SEARCH_TOOLS =>
                /\ call'.called
                /\ \E kv \in call'.args : kv[2] = past_steps[i].output)]_vars

C37_Witness ==
  /\ prev = "executor"
  /\ call.tool = "calculator"
  /\ call.from_previous_step
  /\ call.called
  /\ Len(past_steps) = 3
  /\ past_steps[1].step.step_id = 1
  /\ past_steps[2].step.step_id = 1
  /\ past_steps[1].status = "failure"
  /\ past_steps[2].status = "success"
  /\ past_steps[1].output # past_steps[2].output
  /\ call.input = Scalar(past_steps[1].output)
  /\ \E kv \in call.args : kv[2] = past_steps[1].output

\* C38: every tool of the allow-list is in the registry of the invocation
\* layer, so every step of an accepted plan names a registered tool and no
\* dispatched step fails with UnknownTool.
C38_AcceptedToolsRegistered ==
  /\ [](get_available_tools \subseteq TOOLS)
  /\ [](\A i \in 1..Len(plan) : plan[i].tool \in TOOLS)
  /\ [][(pc = "executor" /\ plan # <<>>) =>
          /\ call'.tool = Head(plan).tool
          /\ call'.tool \in TOOLS
          /\ last'.exc # "UnknownTool"
          /\ Last(past_steps').output # "UnknownTool"]_vars
  /\ [](\A i \in 1..Len(past_steps) :
          /\ past_steps[i].step.tool \in TOOLS
          /\ past_steps[i].output # "UnknownTool")

C38_Witness ==
  /\ prev = "executor"
  /\ pc = "replanner"
  /\ last.ran
  /\ Len(past_steps) = 2
  /\ past_steps[1].step.tool = "python_repl"
  /\ past_steps[1].status = "success"
  /\ call.tool = "get_weather"
  /\ call.tool \in get_available_tools
  /\ past_steps[2].status = "failure"
  /\ past_steps[2].output = "ToolInvocationFailure"

====
